---- MODULE Spec2Model ----
(***************************************************************************)
(* A model of secretary's renders.py: BaseRender.prepare_document (the     *)
(* rewriting of text:text-input fields of an ODF content tree) and         *)
(* render_template (the archive loop around it).                           *)
(*                                                                         *)
(* The DOM is modelled the way xml.dom.minidom keeps it: every node has a  *)
(* parentNode link and an ordered childNodes list, and the two are updated *)
(* separately by insertBefore and removeChild.                             *)
(***************************************************************************)
EXTENDS Integers, Sequences, FiniteSets, TLC

VARIABLES
    xml_document,   \* BaseRender.xml_document: the DOM (a record of per-node functions)
    original,       \* the DOM as parsed, kept to state the claims (never read by an action)
    fields,         \* prepare_document's local list `fields`
    idx,            \* position of the for loop in `fields` (1-based)
    pc,             \* prepare_document: "start" | "loop" | "done" | "raised"
    input,          \* render_template: the input ZipFile  [filelist, closed]
    output,         \* render_template: the output ZipFile [filelist, closed]
    zi,             \* render_template: position of the for loop in input.filelist
    rpc,            \* render_template: "idle" | "loop" | "returned" | "raised"
    version_info    \* sys.version_info >= (2, 7)

vars == <<xml_document, original, fields, idx, pc, input, output, zi, rpc, version_info>>

domVars == <<xml_document, original, fields, idx, pc>>
zipVars == <<input, output, zi, rpc, version_info>>

----------------------------------------------------------------------------
(* Bounds *)

\* number of element nodes below office:body in a generated document
MaxNodes == 3

\* number of entries of a generated input archive
MaxEntries == 3

----------------------------------------------------------------------------
(* Node identities and tag names *)

\* Python's None, as the value of a parentNode link or of a failed lookup
None == 0
\* the Document node made by parseString
DocumentNode == 1
\* the document element (office:document-content)
RootElement == 2
\* self.content_body
ContentBody == 3

OOO_PARAGRAPH_NODE == "text:p"
OOO_TABLEROW_NODE == "table:table-row"
OOO_TABLECELL_NODE == "table:table-cell"
TEXT_INPUT == "text:text-input"
TEXT_SPAN == "text:span"
TEXT_NODE == "#text"

\* the list literal of prepare_document
ScopeTags == {OOO_PARAGRAPH_NODE, OOO_TABLEROW_NODE, OOO_TABLECELL_NODE}

\* str.lower() on the node names that occur
Lower(name) ==
    CASE name = "TEXT:P" -> "text:p"
      [] name = "TABLE:TABLE-ROW" -> "table:table-row"
      [] name = "TABLE:TABLE-CELL" -> "table:table-cell"
      [] OTHER -> name

Max(S) == CHOOSE x \in S : \A y \in S : y <= x

Range(s) == {s[i] : i \in 1..Len(s)}

\* list.index(x): the first position of x in s, 0 when absent (ValueError)
IndexOf(s, x) ==
    IF \E i \in 1..Len(s) : s[i] = x
    THEN CHOOSE i \in 1..Len(s) : s[i] = x /\ \A j \in 1..(i-1) : s[j] # x
    ELSE 0

----------------------------------------------------------------------------
(* re.findall(r'(\{.*?\}*})', field_content): non-empty iff some "{" is      *)
(* followed, with no newline in between, by a "}" ("." stops at "\n").      *)

\* a variant that takes any "{" for a template expression
jinja_tags_any_brace(field_content) ==
    \E i \in 1..Len(field_content) : field_content[i] = "{"

jinja_tags_found(field_content) ==
    \E i \in 1..Len(field_content) :
        \E j \in (i+1)..Len(field_content) :
            /\ field_content[i] = "{"
            /\ field_content[j] = "}"
            /\ \A k \in (i+1)..(j-1) : field_content[k] # "\n"

----------------------------------------------------------------------------
(* xml.dom.minidom, as far as renders.py uses it.  A DOM d is a record of   *)
(* functions over the ids of the nodes created so far.                      *)

NodesOf(d) == DOMAIN d.nodeName

\* Document.createTextNode / Document.createElement: a fresh, unattached node
NewNode(d) == Max(NodesOf(d)) + 1

createNode(d, name, text) ==
    [nodeName    |-> d.nodeName    @@ (NewNode(d) :> name),
     parentNode  |-> d.parentNode  @@ (NewNode(d) :> None),
     childNodes  |-> d.childNodes  @@ (NewNode(d) :> <<>>),
     data        |-> d.data        @@ (NewNode(d) :> text),
     description |-> d.description @@ (NewNode(d) :> "")]

\* Node.appendChild(child) for a fresh child
appendChild(d, parent, child) ==
    [d EXCEPT !.childNodes[parent] = Append(@, child),
              !.parentNode[child] = parent]

\* node types a Document accepts as children: no text nodes (HierarchyRequestErr)
AcceptsChild(d, parent, newChild) ==
    ~(parent = DocumentNode /\ d.nodeName[newChild] = TEXT_NODE)

\* a variant that adds the new child at the end of the list
insertBefore_at_end(d, parent, newChild, refChild) ==
    [d EXCEPT !.childNodes[parent] = Append(@, newChild),
              !.parentNode[newChild] = parent]

\* Node.insertBefore(newChild, refChild) for a fresh newChild
insertBefore(d, parent, newChild, refChild) ==
    LET index == IndexOf(d.childNodes[parent], refChild)
        kids  == d.childNodes[parent]
    IN  [d EXCEPT !.childNodes[parent] =
                      SubSeq(kids, 1, index - 1) \o <<newChild>> \o SubSeq(kids, index, Len(kids)),
                  !.parentNode[newChild] = parent]

\* Node.removeChild(oldChild): list.remove drops the first occurrence
DropChild(kids, oldChild) ==
    LET index == IndexOf(kids, oldChild)
    IN  SubSeq(kids, 1, index - 1) \o SubSeq(kids, index + 1, Len(kids))

\* a variant that clears the parent link and leaves the child listed
removeChild_link_only(d, parent, oldChild) ==
    [d EXCEPT !.parentNode[oldChild] = None]

removeChild(d, parent, oldChild) ==
    [d EXCEPT !.childNodes[parent] = DropChild(@, oldChild),
              !.parentNode[oldChild] = None]

\* Element.getElementsByTagName(name): the descendants named `name`, in document
\* order, as a list built once (not a live view of the tree)
RECURSIVE getElementsByTagName(_, _, _)
getElementsByTagName(d, node, name) ==
    LET kids == d.childNodes[node]
        rc[i \in 0..Len(kids)] ==
            IF i = 0 THEN <<>>
            ELSE rc[i-1]
                 \o (IF d.nodeName[kids[i]] = name THEN <<kids[i]>> ELSE <<>>)
                 \o getElementsByTagName(d, kids[i], name)
    IN  rc[Len(kids)]

----------------------------------------------------------------------------
(* BaseRender *)

\* hasattr(node, 'parentNode'): parentNode is a class attribute of minidom's
\* Node, so every node has it, the Document included (where it is None)
hasattr_parentNode(d, node) == node \in NodesOf(d)

\* get_parent_of: [raised, node].  node.parentNode.nodeName on a node whose
\* parentNode is None is an AttributeError
RECURSIVE get_parent_of(_, _, _)
get_parent_of(d, node, parent_type) ==
    IF hasattr_parentNode(d, node)
    THEN IF d.parentNode[node] = None
         THEN [raised |-> TRUE, node |-> None]
         ELSE IF Lower(d.nodeName[d.parentNode[node]]) = parent_type
              THEN [raised |-> FALSE, node |-> d.parentNode[node]]
              ELSE get_parent_of(d, d.parentNode[node], parent_type)
    ELSE [raised |-> FALSE, node |-> None]

\* create_text_node: [doc, node]
create_text_node(d, text) ==
    [doc |-> createNode(d, TEXT_NODE, text), node |-> NewNode(d)]

\* create_text_span_node: createElement('text:span'), create_text_node, appendChild
create_text_span_node(d, content) ==
    LET span      == NewNode(d)
        text_node == create_text_node(createNode(d, TEXT_SPAN, <<>>), content)
    IN  [doc |-> appendChild(text_node.doc, span, text_node.node), node |-> span]

\* lines 174-181 for a placeholder that is replaced itself: the new node
new_node_for(d, field_description, field_content) ==
    IF field_description = ""
    THEN create_text_span_node(d, field_content)
    ELSE create_text_node(d, field_content)

\* a variant that inserts the new node and leaves the field where it is
Replace_without_remove(d, field, new_node) ==
    IF field = None \/ d.parentNode[field] = None
    THEN [doc |-> d, raised |-> TRUE]
    ELSE [doc |-> insertBefore(d, d.parentNode[field], new_node, field), raised |-> FALSE]

\* lines 183-185: parent = field.parentNode; parent.insertBefore(new_node, field);
\* parent.removeChild(field).  None has neither parentNode nor insertBefore.
Replace(d, field, new_node) ==
    IF field = None
    THEN [doc |-> d, raised |-> TRUE]
    ELSE LET parent == d.parentNode[field]
         IN  IF parent = None \/ ~AcceptsChild(d, parent, new_node)
             THEN [doc |-> d, raised |-> TRUE]
             ELSE [doc |-> removeChild(insertBefore(d, parent, new_node, field),
                                       parent, field),
                   raised |-> FALSE]

\* one iteration of the for loop of prepare_document: [doc, raised]
ProcessField(d, field) ==
    IF d.childNodes[field] = <<>>
    THEN [doc |-> d, raised |-> FALSE]        \* not field.hasChildNodes()
    ELSE IF d.nodeName[d.childNodes[field][1]] # TEXT_NODE
    THEN [doc |-> d, raised |-> TRUE]         \* an Element has no attribute 'data'
    ELSE
    LET field_content     == d.data[d.childNodes[field][1]]
        field_description == d.description[field]
    IN  IF ~jinja_tags_found(field_content)
        THEN [doc |-> d, raised |-> FALSE]    \* continue
        ELSE IF field_description \in ScopeTags
        THEN LET found == get_parent_of(d, field, field_description)
                 new   == create_text_node(d, field_content)
             IN  IF found.raised
                 THEN [doc |-> d, raised |-> TRUE]
                 ELSE Replace(new.doc, found.node, new.node)
        ELSE LET new == new_node_for(d, field_description, field_content)
             IN  Replace(new.doc, field, new.node)

\* the whole of prepare_document on the fields in the given order
RECURSIVE RunFields(_, _)
RunFields(d, fs) ==
    IF fs = <<>> THEN [doc |-> d, raised |-> FALSE]
    ELSE LET r == ProcessField(d, Head(fs))
         IN  IF r.raised THEN r ELSE RunFields(r.doc, Tail(fs))

prepare_document(d) == RunFields(d, getElementsByTagName(d, ContentBody, TEXT_INPUT))

----------------------------------------------------------------------------
(* The documents prepare_document is run on: what parseString returns for   *)
(* an ODF part.  Document > office:document-content > office:body, and      *)
(* MaxNodes further elements, each a paragraph, a table row, a table cell   *)
(* or a text:text-input, nested in every way; a text:text-input may hold a  *)
(* text node as its first child.                                            *)

Skeleton == (ContentBody + 1)..(ContentBody + MaxNodes)

\* the text node of the placeholder s, when it has one
TextOf(s) == s + MaxNodes

Letters == <<"a", "b", "c", "d", "e", "f">>
Letter(s) == Letters[((s - ContentBody - 1) % Len(Letters)) + 1]

\* a literal text with a template expression, and one without: a "}" before
\* the "{", and a newline between the "{" and the next "}"
TemplateText(s) == <<"{", "{", Letter(s), "}", "}">>
PlainText(s) == <<"}", Letter(s), "{", "\n", "}">>

Descriptions == {"", "note"} \cup ScopeTags

\* what an element below the body can be.  The description of a placeholder
\* is read only after a template expression was found in its text.
Kinds ==
    [tag : ScopeTags, description : {""}, content : {"none"}]
    \cup [tag : {TEXT_INPUT}, description : Descriptions, content : {"template"}]
    \cup [tag : {TEXT_INPUT}, description : {""}, content : {"none", "plain"}]

RECURSIVE AncestorsOrSelf(_, _)
AncestorsOrSelf(par, n) ==
    IF n \in DOMAIN par THEN {n} \cup AncestorsOrSelf(par, par[n]) ELSE {n}

\* parent links of the elements, numbered in document order: the first is a
\* child of the body, each later one a child of the body or of an element on
\* the path from the body to its predecessor
Shapes ==
    {par \in [Skeleton -> {ContentBody} \cup Skeleton] :
        \A s \in Skeleton :
            IF s = ContentBody + 1
            THEN par[s] = ContentBody
            ELSE par[s] \in AncestorsOrSelf(
                     [x \in Skeleton \cap (1..(s-1)) |-> par[x]], s - 1)}

HasText(kind, s) == kind[s].content # "none"

RECURSIVE SortedSeq(_)
SortedSeq(S) ==
    IF S = {} THEN <<>>
    ELSE LET m == CHOOSE x \in S : \A y \in S : x <= y
         IN  <<m>> \o SortedSeq(S \ {m})

ElementChildren(par, n) == SortedSeq({s \in Skeleton : par[s] = n})

\* minidom.parseString
parseString(par, kind) ==
    LET texts == {TextOf(s) : s \in {x \in Skeleton : HasText(kind, x)}}
        nodes == {DocumentNode, RootElement, ContentBody} \cup Skeleton \cup texts
    IN  [nodeName |-> [n \in nodes |->
            CASE n = DocumentNode -> "#document"
              [] n = RootElement -> "office:document-content"
              [] n = ContentBody -> "office:body"
              [] n \in Skeleton -> kind[n].tag
              [] OTHER -> TEXT_NODE],
         parentNode |-> [n \in nodes |->
            CASE n = DocumentNode -> None
              [] n = RootElement -> DocumentNode
              [] n = ContentBody -> RootElement
              [] n \in Skeleton -> par[n]
              [] OTHER -> n - MaxNodes],
         childNodes |-> [n \in nodes |->
            CASE n = DocumentNode -> <<RootElement>>
              [] n = RootElement -> <<ContentBody>>
              [] n = ContentBody -> ElementChildren(par, n)
              [] n \in Skeleton ->
                    (IF HasText(kind, n) THEN <<TextOf(n)>> ELSE <<>>)
                    \o ElementChildren(par, n)
              [] OTHER -> <<>>],
         data |-> [n \in nodes |->
            IF n \in texts
            THEN IF kind[n - MaxNodes].content = "template"
                 THEN TemplateText(n - MaxNodes) ELSE PlainText(n - MaxNodes)
            ELSE <<>>],
         description |-> [n \in nodes |->
            IF n \in Skeleton THEN kind[n].description ELSE ""]]

----------------------------------------------------------------------------
(* prepare_document as a state machine: one step per loop iteration *)

NoArchive == [filelist |-> <<>>, closed |-> TRUE]

Init ==
    /\ \E par \in Shapes, kind \in [Skeleton -> Kinds] :
          xml_document = parseString(par, kind)
    /\ original = xml_document
    /\ fields = <<>>
    /\ idx = 1
    /\ pc = "start"
    /\ input = NoArchive
    /\ output = NoArchive
    /\ zi = 1
    /\ rpc = "unused"
    /\ version_info = TRUE

\* line 161
Collect ==
    /\ pc = "start"
    /\ fields' = getElementsByTagName(xml_document, ContentBody, TEXT_INPUT)
    /\ idx' = 1
    /\ pc' = "loop"
    /\ UNCHANGED <<xml_document, original>>
    /\ UNCHANGED zipVars

\* lines 163-185, one field
Iterate ==
    /\ pc = "loop"
    /\ idx <= Len(fields)
    /\ LET r == ProcessField(xml_document, fields[idx])
       IN  /\ xml_document' = r.doc
           /\ pc' = IF r.raised THEN "raised" ELSE "loop"
           /\ idx' = IF r.raised THEN idx ELSE idx + 1
    /\ UNCHANGED <<original, fields>>
    /\ UNCHANGED zipVars

\* the for loop is exhausted: prepare_document returns
Return ==
    /\ pc = "loop"
    /\ idx > Len(fields)
    /\ pc' = "done"
    /\ UNCHANGED <<xml_document, original, fields, idx>>
    /\ UNCHANGED zipVars

Next == Collect \/ Iterate \/ Return

Spec == Init /\ [][Next]_vars

----------------------------------------------------------------------------
(* BaseRender.render on the bytes of a content part *)

\* Document.toxml(), as a list of tokens
RECURSIVE toxml(_, _)
toxml(d, n) ==
    LET kids == d.childNodes[n]
        inner[i \in 0..Len(kids)] ==
            IF i = 0 THEN <<>> ELSE inner[i-1] \o toxml(d, kids[i])
    IN  IF n = DocumentNode THEN <<"<?xml version=\"1.0\" ?>">> \o inner[Len(kids)]
        ELSE IF d.nodeName[n] = TEXT_NODE THEN d.data[n]
        ELSE <<"<", d.nodeName[n]>>
             \o (IF d.description[n] = "" THEN <<>>
                 ELSE <<"text:description=", d.description[n]>>)
             \o <<">">> \o inner[Len(kids)] \o <<"</", d.nodeName[n], ">">>

FirstElement == ContentBody + 1

\* the content parts of the archives: a paragraph whose children are
\* placeholders with a template expression, all without a scope or all with
\* the scope of their paragraph
SampleDocument(field_description) ==
    parseString(
        [s \in Skeleton |-> IF s = FirstElement THEN ContentBody ELSE FirstElement],
        [s \in Skeleton |->
            IF s = FirstElement
            THEN [tag |-> OOO_PARAGRAPH_NODE, description |-> "", content |-> "none"]
            ELSE [tag |-> TEXT_INPUT, description |-> field_description,
                  content |-> "template"]])

SampleDocuments == {SampleDocument(""), SampleDocument(OOO_PARAGRAPH_NODE)}

\* bytes that are not well-formed XML
Garbage == <<"<", "office:body">>

\* jinja2 with no variable bound and UndefinedSilently: every {{ name }} renders
\* as the empty string, everything else is copied
RECURSIVE template_render(_)
template_render(text) ==
    IF Len(text) >= 5 /\ text[1] = "{" /\ text[2] = "{" /\ text[4] = "}" /\ text[5] = "}"
    THEN template_render(SubSeq(text, 6, Len(text)))
    ELSE IF text = <<>> THEN <<>>
    ELSE <<Head(text)>> \o template_render(Tail(text))

\* rendered.replace('\n', '<text:line-break/>')
replace_newlines(text) ==
    [i \in 1..Len(text) |-> IF text[i] = "\n" THEN "<text:line-break/>" ELSE text[i]]

render_with_engine(d) == replace_newlines(template_render(toxml(d, DocumentNode)))

\* BaseRender(out, kwargs).render(): [raised, out].  parseString raises on
\* bytes that are not XML, prepare_document as modelled above.
render(bytes) ==
    IF \A d \in SampleDocuments : toxml(d, DocumentNode) # bytes
    THEN [raised |-> TRUE, out |-> <<>>]
    ELSE LET parsed   == CHOOSE d \in SampleDocuments : toxml(d, DocumentNode) = bytes
             prepared == prepare_document(parsed)
         IN  IF prepared.raised
             THEN [raised |-> TRUE, out |-> <<>>]
             ELSE [raised |-> FALSE, out |-> render_with_engine(prepared.doc)]

----------------------------------------------------------------------------
(* render_template *)

ZIP_STORED == "ZIP_STORED"
ZIP_DEFLATED == "ZIP_DEFLATED"

RenderedNames == {"content.xml", "styles.xml"}
CopiedNames == {"mimetype", "meta.xml"}

ZipInfos ==
    [filename : RenderedNames,
     data : {toxml(d, DocumentNode) : d \in SampleDocuments} \cup {Garbage},
     compress_type : {ZIP_STORED, ZIP_DEFLATED}]
    \cup [filename : CopiedNames,
          data : {<<"application/vnd.oasis.opendocument.text">>, <<"PK">>},
          compress_type : {ZIP_STORED, ZIP_DEFLATED}]

\* the input archives: up to MaxEntries entries, in any order, no name twice
Archives ==
    UNION {{a \in [1..n -> ZipInfos] :
               \A i, j \in 1..n : a[i].filename = a[j].filename => i = j} :
           n \in 1..MaxEntries}

\* a variant that reads the first entry of the archive whatever the name
read_first_entry(archive, name) == archive.filelist[1].data

\* ZipFile.read(name): the bytes of the entry that NameToInfo has for the
\* name, which is the last one of that name in the archive
read(archive, name) ==
    archive.filelist[Max({i \in 1..Len(archive.filelist) :
                              archive.filelist[i].filename = name})].data

\* ZipFile.writestr(name, bytes, compress_type)
writestr_as(archive, name, bytes, compress_type) ==
    [archive EXCEPT !.filelist =
        Append(@, [filename |-> name, data |-> bytes, compress_type |-> compress_type])]

\* ZipFile.writestr(name, bytes): the entry gets the compression the archive
\* was opened with, the default ZIP_STORED (line 208)
writestr(archive, name, bytes) == writestr_as(archive, name, bytes, ZIP_STORED)

\* lines 222-225
write_entry(archive, name, out) ==
    IF version_info
    THEN writestr_as(archive, name, out, ZIP_DEFLATED)
    ELSE writestr(archive, name, out)

InitArchive ==
    /\ \E a \in Archives : input = [filelist |-> a, closed |-> TRUE]
    /\ output = NoArchive
    /\ zi = 1
    /\ rpc = "idle"
    /\ version_info \in BOOLEAN
    /\ xml_document = SampleDocument("")
    /\ original = xml_document
    /\ fields = <<>>
    /\ idx = 1
    /\ pc = "unused"

\* lines 205-208: both archives are opened
Open ==
    /\ rpc = "idle"
    /\ input' = [input EXCEPT !.closed = FALSE]
    /\ output' = [filelist |-> <<>>, closed |-> FALSE]
    /\ zi' = 1
    /\ rpc' = "loop"
    /\ UNCHANGED version_info
    /\ UNCHANGED domVars

\* lines 211-225 for an entry that is not rendered
CopyEntry ==
    /\ rpc = "loop"
    /\ zi <= Len(input.filelist)
    /\ input.filelist[zi].filename \notin RenderedNames
    /\ output' = write_entry(output, input.filelist[zi].filename,
                             read(input, input.filelist[zi].filename))
    /\ zi' = zi + 1
    /\ UNCHANGED <<input, rpc, version_info>>
    /\ UNCHANGED domVars

\* lines 211-225 for content.xml or styles.xml, rendered
RenderEntry ==
    /\ rpc = "loop"
    /\ zi <= Len(input.filelist)
    /\ input.filelist[zi].filename \in RenderedNames
    /\ ~render(read(input, input.filelist[zi].filename)).raised
    /\ output' = write_entry(output, input.filelist[zi].filename,
                             render(read(input, input.filelist[zi].filename)).out)
    /\ zi' = zi + 1
    /\ UNCHANGED <<input, rpc, version_info>>
    /\ UNCHANGED domVars

\* lines 215-216 raise: the exception leaves render_template
RenderRaises ==
    /\ rpc = "loop"
    /\ zi <= Len(input.filelist)
    /\ input.filelist[zi].filename \in RenderedNames
    /\ render(read(input, input.filelist[zi].filename)).raised
    /\ rpc' = "raised"
    /\ UNCHANGED <<input, output, zi, version_info>>
    /\ UNCHANGED domVars

\* lines 228-231
Close ==
    /\ rpc = "loop"
    /\ zi > Len(input.filelist)
    /\ input' = [input EXCEPT !.closed = TRUE]
    /\ output' = [output EXCEPT !.closed = TRUE]
    /\ rpc' = "returned"
    /\ UNCHANGED <<zi, version_info>>
    /\ UNCHANGED domVars

NextArchive == Open \/ CopyEntry \/ RenderEntry \/ RenderRaises \/ Close

SpecArchive == InitArchive /\ [][NextArchive]_vars

----------------------------------------------------------------------------
(* Vocabulary of the claims, stated on the tree and not through the         *)
(* operators of the code above.                                             *)

\* the nodes of the subtree of n (n included)
RECURSIVE Subtree(_, _)
Subtree(d, n) ==
    {n} \cup UNION {Subtree(d, d.childNodes[n][i]) : i \in 1..Len(d.childNodes[n])}

\* the document tree: what is reachable from the Document node
InDocument(d) == Subtree(d, DocumentNode)

\* a text with a "{" ... "}" on one line
ContainsBraceExpression(text) ==
    \E i \in 1..Len(text), j \in 1..Len(text) :
        /\ i < j
        /\ text[i] = "{"
        /\ text[j] = "}"
        /\ "\n" \notin {text[k] : k \in i..j}

\* the placeholders under the body, as parsed
Placeholders == {n \in Subtree(original, ContentBody) : original.nodeName[n] = TEXT_INPUT}

\* the literal text of a placeholder: that of its first child, a text node
HasLiteralText(f) ==
    /\ original.childNodes[f] # <<>>
    /\ original.nodeName[original.childNodes[f][1]] = TEXT_NODE

LiteralText(f) == original.data[original.childNodes[f][1]]

IsTemplateField(f) == HasLiteralText(f) /\ ContainsBraceExpression(LiteralText(f))

\* the nearest ancestor of n named tag, None when there is none
RECURSIVE NearestAncestor(_, _, _)
NearestAncestor(d, n, tag) ==
    IF d.parentNode[n] = None THEN None
    ELSE IF d.nodeName[d.parentNode[n]] = tag THEN d.parentNode[n]
    ELSE NearestAncestor(d, d.parentNode[n], tag)

\* the root of the tree n hangs in
RECURSIVE TopOf(_, _)
TopOf(d, n) == IF d.parentNode[n] = None THEN n ELSE TopOf(d, d.parentNode[n])

\* the loop has gone through the k-th collected field without raising
Completed(k) == pc \in {"loop", "done", "raised"} /\ k \in 1..Len(fields) /\ k < idx

\* the loop has reached the k-th collected field
Reached(k) ==
    /\ pc \in {"loop", "done", "raised"}
    /\ k \in 1..Len(fields)
    /\ (k < idx \/ (k = idx /\ pc = "raised"))

PositionOf(n) == IndexOf(original.childNodes[original.parentNode[n]], n)

\* node n of the parsed tree now has, at its former position in its parent's
\* child list, a node made by the rewrite, and that list is otherwise as it was
\* up to such replacements
ReplacementOf(n) == xml_document.childNodes[original.parentNode[n]][PositionOf(n)]

\* n has been replaced at its former position by one bare text node holding text
ReplacedByText(n, text) ==
    /\ Len(xml_document.childNodes[original.parentNode[n]])
           = Len(original.childNodes[original.parentNode[n]])
    /\ ReplacementOf(n) \notin NodesOf(original)
    /\ xml_document.nodeName[ReplacementOf(n)] = TEXT_NODE
    /\ xml_document.data[ReplacementOf(n)] = text
    /\ xml_document.parentNode[ReplacementOf(n)] = original.parentNode[n]
    /\ n \notin Range(xml_document.childNodes[original.parentNode[n]])

\* n has been replaced at its former position by a text:span whose only child
\* is a text node holding text
ReplacedBySpan(n, text) ==
    /\ Len(xml_document.childNodes[original.parentNode[n]])
           = Len(original.childNodes[original.parentNode[n]])
    /\ ReplacementOf(n) \notin NodesOf(original)
    /\ xml_document.nodeName[ReplacementOf(n)] = TEXT_SPAN
    /\ xml_document.parentNode[ReplacementOf(n)] = original.parentNode[n]
    /\ n \notin Range(xml_document.childNodes[original.parentNode[n]])
    /\ Len(xml_document.childNodes[ReplacementOf(n)]) = 1
    /\ LET t == xml_document.childNodes[ReplacementOf(n)][1]
       IN  /\ xml_document.nodeName[t] = TEXT_NODE
           /\ xml_document.data[t] = text
           /\ xml_document.parentNode[t] = ReplacementOf(n)

\* nothing of the subtree of n, n included, is in the document tree any more
GoneFromDocument(n) == Subtree(original, n) \cap InDocument(xml_document) = {}

ScopedTemplateField(f) ==
    /\ f \in Placeholders
    /\ IsTemplateField(f)
    /\ original.description[f] \in ScopeTags

EnclosingOf(f) == NearestAncestor(original, f, original.description[f])

----------------------------------------------------------------------------
(* C1 *)

\* C1 as stated: once prepare_document has been through a placeholder with a
\* template expression and a structural scope tag that has an enclosing
\* ancestor A with that tag, A is replaced at its former position by one bare
\* text node holding the placeholder's literal text, and nothing of A is left
\* in the document tree.
C1_EnclosingReplacedForEveryScopedField ==
    \A k \in 1..Len(fields) :
        (Reached(k) /\ ScopedTemplateField(fields[k]) /\ EnclosingOf(fields[k]) # None)
            => /\ ReplacedByText(EnclosingOf(fields[k]), LiteralText(fields[k]))
               /\ GoneFromDocument(EnclosingOf(fields[k]))

\* C1, amended: the same for every such placeholder unless an earlier
\* iteration has already taken A, or a node between the placeholder and A, out
\* of its parent (two scoped placeholders below the same A, for one). Then
\* the iteration raises when it reaches the placeholder, the placeholder still
\* hangs in the detached tree, and for that placeholder nothing is replaced.
C1_EnclosingReplacedUnlessAlreadyDetached ==
    \A k \in 1..Len(fields) :
        (Reached(k) /\ ScopedTemplateField(fields[k]) /\ EnclosingOf(fields[k]) # None)
            => IF Completed(k)
               THEN /\ ReplacedByText(EnclosingOf(fields[k]), LiteralText(fields[k]))
                    /\ GoneFromDocument(EnclosingOf(fields[k]))
               ELSE /\ TopOf(xml_document, fields[k])
                           \in Subtree(original, EnclosingOf(fields[k]))
                    /\ TopOf(xml_document, fields[k]) \notin InDocument(xml_document)
                    /\ \A n \in NodesOf(xml_document) \ NodesOf(original) :
                           xml_document.parentNode[n] # None
                               => xml_document.data[n] # LiteralText(fields[k])

\* a paragraph, row or cell with other children was replaced for a placeholder
C1_Witness ==
    /\ pc = "done"
    /\ \E k \in 1..Len(fields) :
        /\ ScopedTemplateField(fields[k])
        /\ EnclosingOf(fields[k]) # None
        /\ Len(original.childNodes[EnclosingOf(fields[k])]) >= 2
        /\ EnclosingOf(fields[k]) \notin InDocument(xml_document)

----------------------------------------------------------------------------
(* C2 *)

UnscopedTemplateField(f) ==
    /\ f \in Placeholders
    /\ IsTemplateField(f)
    /\ original.description[f] \notin ScopeTags

\* C2: a placeholder with a template expression whose scope attribute is
\* absent, empty or not one of the three structural tags is replaced, where it
\* was, by a text:span whose only child is a text node holding its literal
\* text, and its iteration does not raise.
C2_UnscopedFieldBecomesSpan ==
    \A k \in 1..Len(fields) :
        (Reached(k) /\ UnscopedTemplateField(fields[k]))
            => /\ ~(pc = "raised" /\ idx = k)
               /\ ReplacedBySpan(fields[k], LiteralText(fields[k]))

----------------------------------------------------------------------------
(* C3 *)

\* C3: when no placeholder under the body has a literal text with a template
\* expression, prepare_document leaves the tree as parsed: the same nodes,
\* links, sibling order and attributes, at every step and at its end.
C3_NoTemplateFieldNoChange ==
    (\A f \in Placeholders : ~IsTemplateField(f)) => xml_document = original

\* prepare_document returned on a document that has placeholders with a
\* literal text, none with a template expression
C3_Witness ==
    /\ pc = "done"
    /\ \E f \in Placeholders : HasLiteralText(f)
    /\ \A f \in Placeholders : ~IsTemplateField(f)

----------------------------------------------------------------------------
(* C4 *)

\* C4: for a placeholder whose scope attribute names a structural tag that no
\* ancestor has, get_parent_of returns None without raising, and
\* prepare_document replaces the placeholder itself by a bare text node and
\* goes on.
C4_NoEnclosingFallsBackToText ==
    \A k \in 1..Len(fields) :
        (Reached(k) /\ ScopedTemplateField(fields[k]) /\ EnclosingOf(fields[k]) = None)
            => /\ get_parent_of(original, fields[k], original.description[fields[k]])
                      = [raised |-> FALSE, node |-> None]
               /\ ~(pc = "raised" /\ idx = k)
               /\ ReplacedByText(fields[k], LiteralText(fields[k]))

----------------------------------------------------------------------------
(* C8 *)

\* the tree below n, without node identities
RECURSIVE Canon(_, _)
Canon(d, n) ==
    [name        |-> d.nodeName[n],
     description |-> d.description[n],
     data        |-> d.data[n],
     kids        |-> [i \in 1..Len(d.childNodes[n]) |-> Canon(d, d.childNodes[n][i])]]

Orders(fs) ==
    {[i \in 1..Len(fs) |-> fs[p[i]]] :
        p \in {q \in [1..Len(fs) -> 1..Len(fs)] :
                  \A i, j \in 1..Len(fs) : q[i] = q[j] => i = j}}

JustCollected == pc = "loop" /\ idx = 1

\* C8: processing the collected placeholders in any order gives the same
\* outcome and the same final tree as processing them in document order.
C8_OrderDoesNotMatter ==
    JustCollected =>
        LET inOrder == RunFields(xml_document, fields)
        IN  \A fs \in Orders(fields) :
                LET permuted == RunFields(xml_document, fs)
                IN  /\ permuted.raised = inOrder.raised
                    /\ Canon(permuted.doc, DocumentNode) = Canon(inOrder.doc, DocumentNode)

\* a placeholder whose iteration does something: it has children
ActiveField(f) ==
    /\ original.childNodes[f] # <<>>
    /\ (HasLiteralText(f) => IsTemplateField(f))

\* the node the iteration of f takes out of the tree
TargetOf(f) ==
    IF ScopedTemplateField(f) /\ EnclosingOf(f) # None THEN EnclosingOf(f) ELSE f

\* no active placeholder lies in the subtree another one's iteration takes out
Independent ==
    \A f, g \in Placeholders :
        (ActiveField(f) /\ ActiveField(g) /\ f # g) => g \notin Subtree(original, TargetOf(f))

\* C8, amended: two orders that both let prepare_document return give the
\* same final tree; and when no placeholder lies in the subtree that the
\* replacement of another one removes, every order has the same outcome.
\* (Otherwise the order decides whether prepare_document raises, and which
\* tree it leaves when it does.)
C8_OrderMattersOnlyThroughRemovedSubtrees ==
    JustCollected =>
        LET inOrder     == RunFields(xml_document, fields)
            independent == Independent
        IN  \A fs \in Orders(fields) :
                LET permuted == RunFields(xml_document, fs)
                IN  /\ (~inOrder.raised /\ ~permuted.raised)
                          => Canon(permuted.doc, DocumentNode) = Canon(inOrder.doc, DocumentNode)
                    /\ independent => permuted.raised = inOrder.raised

\* two independent placeholders are rewritten, one of them with its paragraph
C8_Witness ==
    /\ pc = "done"
    /\ Independent
    /\ \E f, g \in Placeholders :
          /\ f # g
          /\ IsTemplateField(f) /\ IsTemplateField(g)
          /\ TargetOf(f) # f

----------------------------------------------------------------------------
(* C9 *)

\* every node of the document tree but the Document has a parent, which is in
\* the tree and lists it once, and no other node lists it
WellFormed(d) ==
    LET tree == InDocument(d)
    IN  \A n \in tree \ {DocumentNode} :
            /\ d.parentNode[n] # None
            /\ d.parentNode[n] \in tree
            /\ Cardinality({i \in 1..Len(d.childNodes[d.parentNode[n]]) :
                                d.childNodes[d.parentNode[n]][i] = n}) = 1
            /\ \A m \in NodesOf(d) : n \in Range(d.childNodes[m]) => m = d.parentNode[n]

\* C9: after every replacement step the document tree is well-formed, and the
\* node that was replaced (the placeholder or its enclosing ancestor: the root
\* of the detached tree the placeholder now hangs in) is out of the document
\* tree, also for a placeholder that was already in a detached subtree.
C9_TreeWellFormedAfterEveryStep ==
    /\ WellFormed(xml_document)
    /\ \A k \in 1..Len(fields) :
          (Completed(k) /\ IsTemplateField(fields[k]))
              => /\ TopOf(xml_document, fields[k]) # DocumentNode
                 /\ Subtree(xml_document, TopOf(xml_document, fields[k]))
                        \cap InDocument(xml_document) = {}

\* a replacement was made inside a subtree that an earlier one had detached
C9_Witness ==
    /\ pc = "done"
    /\ \E n \in NodesOf(xml_document) \ NodesOf(original) :
          /\ xml_document.parentNode[n] # None
          /\ xml_document.parentNode[n] \in NodesOf(original)
          /\ xml_document.parentNode[n] \notin InDocument(xml_document)

----------------------------------------------------------------------------
(* C10 *)

TemplateFieldIn(d, n) ==
    /\ d.nodeName[n] = TEXT_INPUT
    /\ d.childNodes[n] # <<>>
    /\ d.nodeName[d.childNodes[n][1]] = TEXT_NODE
    /\ ContainsBraceExpression(d.data[d.childNodes[n][1]])

\* C10: when prepare_document has returned, no text:text-input whose first
\* child's text has a template expression is left below the content body, and
\* running prepare_document again changes nothing.
C10_NoTemplateFieldLeftAndIdempotent ==
    pc = "done" =>
        /\ \A n \in Subtree(xml_document, ContentBody) : ~TemplateFieldIn(xml_document, n)
        /\ prepare_document(xml_document) = [doc |-> xml_document, raised |-> FALSE]

\* prepare_document returned, having rewritten something, and a placeholder
\* without a template expression is still below the body
C10_Witness ==
    /\ pc = "done"
    /\ xml_document # original
    /\ \E n \in Subtree(xml_document, ContentBody) :
          xml_document.nodeName[n] = TEXT_INPUT /\ xml_document.childNodes[n] # <<>>

----------------------------------------------------------------------------
(* C5 *)

----------------------------------------------------------------------------
(* C6 *)

\* C6: every entry written without rendering has the storage mode of the
\* input entry, and the mimetype entry is written uncompressed.
C6_CopiedEntriesKeepStorageMode ==
    \A i \in 1..Len(output.filelist) :
        output.filelist[i].filename \notin RenderedNames
            => /\ output.filelist[i].compress_type = input.filelist[i].compress_type
               /\ output.filelist[i].filename = "mimetype"
                     => output.filelist[i].compress_type = ZIP_STORED

----------------------------------------------------------------------------
(* C7 *)

\* C7: when control has left render_template, by return or by an exception,
\* the input archive and the output archive are closed.
C7_ArchivesClosedOnEveryExit ==
    rpc \in {"returned", "raised"} => (input.closed /\ output.closed)

====
